---- MODULE Spec2Model ----
(***************************************************************************)
(* The task lifecycle of the task manager: TaskService (services.py) over  *)
(* the tasks and task_history tables (models.py) and the APScheduler job   *)
(* store, the notify job function (app.py), and the categories table with *)
(* CategoryService.delete_category.                                        *)
(*                                                                         *)
(* The route handlers are coroutines that call the synchronous service     *)
(* methods, and the AsyncIOScheduler runs notify on the same event loop,   *)
(* so the calls never interleave inside the process.  What a service       *)
(* method commits before it returns is nevertheless stored in tasks.db,    *)
(* so a method that commits and then goes on is modelled in two steps.     *)
(***************************************************************************)
EXTENDS Integers, Sequences, FiniteSets, TLC

VARIABLES
    tasks,      \* the tasks table: task id -> row
    jobs,       \* the scheduler's job store: job id -> job
    history,    \* the task_history table, in insertion order
    now,        \* the clock, in hours
    nextId,     \* how many ids uuid4 has handed out
    pc,         \* where the process stands: "startup" before the application serves,
                \* "idle" between calls, the line a call in progress has reached,
                \* "exit" after the teardown
    call,       \* the call made last: method, task id, result, and what it was given
    suspended,  \* ids snooze_task or complete_task was called on, with no
                \* reactivate_task since (a record of the calls, not program state)
    instances,  \* the task_id of the runs of notify the scheduler has submitted and
                \* that have not run yet
    scheduler_running,  \* scheduler.running
    categories  \* the categories table: the ids of its rows

vars == <<tasks, jobs, history, now, nextId, pc, call, suspended, instances,
          scheduler_running, categories>>

----------------------------------------------------------------------------
\* Bounds of the model.
MaxTasks == 1       \* ids create_task can hand out
MaxTime == 1        \* the clock runs from 0 to MaxTime
MaxHistory == 1     \* rows of task_history
MaxRuns == 1        \* executions recorded per task
MaxKeys == 2        \* keys of the update_data given to update_task

Ids == 1..MaxTasks
Null == 0 - 1                   \* None, for a nullable DateTime column
Durations == {1}                \* duration_hours given to snooze_task

----------------------------------------------------------------------------
\* models.py: the two enums.  Calling an Enum looks a member up by VALUE.
PENDING == "TaskStatus.PENDING"
COMPLETED == "TaskStatus.COMPLETED"
SNOOZED == "TaskStatus.SNOOZED"
LOW == "TaskPriority.LOW"
MEDIUM == "TaskPriority.MEDIUM"
HIGH == "TaskPriority.HIGH"
ValueError == "ValueError"

\* The lookup that also takes a member's name, as TaskStatus[value] does.
TaskStatus_or_name(value) ==
    CASE value \in {"pending", "PENDING"} -> PENDING
      [] value \in {"completed", "COMPLETED"} -> COMPLETED
      [] value \in {"snoozed", "SNOOZED"} -> SNOOZED
      [] OTHER -> ValueError

TaskStatus(value) ==
    CASE value = "pending" -> PENDING
      [] value = "completed" -> COMPLETED
      [] value = "snoozed" -> SNOOZED
      [] OTHER -> ValueError

TaskPriority(value) ==
    CASE value = "low" -> LOW
      [] value = "medium" -> MEDIUM
      [] value = "high" -> HIGH
      [] OTHER -> ValueError

----------------------------------------------------------------------------
\* Cron expressions, as the sequence of their whitespace-separated fields.
EveryMinute == <<"*", "*", "*", "*", "*">>
NineOClock == <<"0", "9", "*", "*", "*">>
BadMinute == <<"61", "*", "*", "*", "*">>
TooFewFields == <<"*", "*", "*">>
Crons == {EveryMinute, NineOClock, BadMinute}

Berlin == "Europe/Berlin"
NoSuchZone == "Mars/Phobos"
Timezones == {Berlin, NoSuchZone}
KnownZones == {Berlin, "UTC"}

Numeral == ("0" :> 0) @@ ("9" :> 9) @@ ("61" :> 61)
FieldMin == <<0, 0, 1, 1, 0>>
FieldMax == <<59, 23, 31, 12, 6>>

FieldOK(i, tok) ==
    \/ tok = "*"
    \/ /\ tok \in DOMAIN Numeral
       /\ Numeral[tok] >= FieldMin[i]
       /\ Numeral[tok] <= FieldMax[i]

\* CronTrigger.from_crontab(expr, timezone=tz) raises: wrong number of
\* fields, a field outside its range, or an unknown timezone.
from_crontab_raises(expr, tz) ==
    \/ Len(expr) # 5
    \/ \E i \in 1..Len(expr) : i <= 5 /\ ~FieldOK(i, expr[i])
    \/ tz \notin KnownZones

from_crontab(expr, tz) == [cron_expression |-> expr, timezone |-> tz]

----------------------------------------------------------------------------
\* The job store.
misfire_grace_time == 60

\* The trigger's first fire time after the reference time, as a term: the
\* model does not compute the time, it keeps what the time is computed from.
next_fire_after(trigger, reference) == [trigger |-> trigger, after |-> reference]

\* The job a call registers with a grace other than 60 seconds.
Job_with_long_grace(trigger, name, args) ==
    [trigger |-> trigger, name |-> name, args |-> args, misfire_grace_time |-> 600,
     next_run_time |-> next_fire_after(trigger, now)]

\* The job add_job stores: its next run time is computed when it is added.
Job(trigger, name, args) ==
    [trigger |-> trigger, name |-> name, args |-> args,
     misfire_grace_time |-> misfire_grace_time,
     next_run_time |-> next_fire_after(trigger, now)]

\* args=(topic, title, body, task_id), as both add_job calls write it.
Args(task, task_id) == <<task.topic, task.title, task.body, task_id>>

add_job(js, id, job) ==
    [x \in DOMAIN js \cup {id} |-> IF x = id THEN job ELSE js[x]]

remove_job(js, id) == [x \in DOMAIN js \ {id} |-> js[x]]

----------------------------------------------------------------------------
NoTask == "-"       \* pre: the task did not exist when the call was made

\* The call made last.  pre: the status the task had when it was made; sched:
\* the cron_expression and timezone it was given; nf: a notify_function was given;
\* late: the seconds by which a job was found late; again: it is complete_task
\* on a stored task, and the call before it was the same.
Call(op, id, ret, pre, sched, nf) ==
    [op |-> op, id |-> id, ret |-> ret, pre |-> pre, sched |-> sched, nf |-> nf,
     late |-> 0,
     again |-> op = "complete_task" /\ pre # NoTask /\ call.op = op /\ call.id = id]

NoSchedule == [k \in {} |-> ""]
Schedule(cron_expression, timezone) ==
    ("cron_expression" :> cron_expression) @@ ("timezone" :> timezone)

PreStatus(id) == IF id \in DOMAIN tasks THEN tasks[id].status ELSE NoTask

Init ==
    /\ tasks = << >>
    /\ jobs = << >>
    /\ history = << >>
    /\ now = 0
    /\ nextId = 0
    /\ pc = "startup"
    /\ call = [op |-> "none", id |-> 0, ret |-> "None", pre |-> NoTask,
               sched |-> NoSchedule, nf |-> FALSE, late |-> 0, again |-> FALSE]
    /\ suspended = {}
    /\ instances = {}
    /\ scheduler_running = FALSE
    /\ categories = {}

----------------------------------------------------------------------------
\* TaskService.create_task.
PriorityInputs == {"MEDIUM", "medium"}      \* "MEDIUM" is the default argument
CreateCrons == Crons \cup {TooFewFields}

NewTask(title, topic, body, cron_expression, priority, category_id, timezone) ==
    [title |-> title,
     topic |-> topic,
     body |-> body,
     status |-> PENDING,
     cron_expression |-> cron_expression,
     timezone |-> timezone,
     priority |-> TaskPriority(priority),
     category_id |-> category_id,
     completed_at |-> Null,
     snoozed_until |-> Null,
     run_count |-> 0,
     last_run |-> Null]

\* Lines 64-92: the argument checks, then the row is added and committed.
create_task(title, topic, body, cron_expression, priority, category_id, timezone, notify_function) ==
    /\ pc = "idle"
    /\ \/ /\ ~notify_function \/ TaskPriority(priority) = ValueError
          /\ call' = Call("create_task", 0, ValueError, NoTask,
                          Schedule(cron_expression, timezone), notify_function)
          /\ UNCHANGED <<tasks, jobs, history, now, nextId, pc, suspended,
                         instances, scheduler_running, categories>>
       \/ /\ notify_function
          /\ TaskPriority(priority) # ValueError
          /\ nextId' = nextId + 1
          /\ tasks' = (nextId' :> NewTask(title, topic, body, cron_expression, priority,
                                          category_id, timezone)) @@ tasks
          /\ pc' = "create_task:94"
          /\ call' = Call("create_task", nextId', "running", NoTask,
                          Schedule(cron_expression, timezone), TRUE)
          /\ UNCHANGED <<jobs, history, now, suspended, instances, scheduler_running, categories>>

\* Lines 94-115: the job is scheduled, or the row is deleted again.
create_task_schedule ==
    /\ pc = "create_task:94"
    /\ LET task_id == call.id
           task == tasks[task_id]
       IN  \/ /\ ~from_crontab_raises(task.cron_expression, task.timezone)
              /\ jobs' = add_job(jobs, task_id,
                                 Job(from_crontab(task.cron_expression, task.timezone),
                                     task.title, Args(task, task_id)))
              /\ call' = [call EXCEPT !.ret = "Task"]
              /\ UNCHANGED tasks
           \/ /\ from_crontab_raises(task.cron_expression, task.timezone)
              /\ tasks' = [x \in DOMAIN tasks \ {task_id} |-> tasks[x]]
              /\ call' = [call EXCEPT !.ret = "HTTPException"]
              /\ UNCHANGED jobs
    /\ pc' = "idle"
    /\ UNCHANGED <<history, now, nextId, suspended, instances, scheduler_running, categories>>

----------------------------------------------------------------------------
\* TaskService.update_task.
reschedule_keys == {"cron_expression", "timezone", "status", "snoozed_until"}
schedule_keys == {"cron_expression", "timezone"}

Has(update_data, key) == key \in DOMAIN update_data

\* The cron_expression and timezone of update_data.
Given(update_data) == [k \in DOMAIN update_data \cap schedule_keys |-> update_data[k]]

\* Lines 130-134: TaskPriority(value) or TaskStatus(value) raises; nothing
\* has been committed, and the scheduler has not been touched.
update_raises(update_data) ==
    \/ Has(update_data, "priority") /\ TaskPriority(update_data["priority"]) = ValueError
    \/ Has(update_data, "status") /\ TaskStatus(update_data["status"]) = ValueError

new_status(task, update_data) ==
    IF Has(update_data, "status") THEN TaskStatus(update_data["status"]) ELSE task.status

\* Lines 127-152: the row after the loop over update_data.  The keys are
\* taken in the order the callers write them: status before completed_at.
updated_task(task, update_data) ==
    [task EXCEPT
        !.title = IF Has(update_data, "title") THEN update_data["title"] ELSE @,
        !.topic = IF Has(update_data, "topic") THEN update_data["topic"] ELSE @,
        !.body = IF Has(update_data, "body") THEN update_data["body"] ELSE @,
        !.status = new_status(task, update_data),
        !.priority = IF Has(update_data, "priority")
                     THEN TaskPriority(update_data["priority"]) ELSE @,
        !.category_id = IF Has(update_data, "category_id")
                        THEN update_data["category_id"] ELSE @,
        !.cron_expression = IF Has(update_data, "cron_expression")
                            THEN update_data["cron_expression"] ELSE @,
        !.timezone = IF Has(update_data, "timezone") THEN update_data["timezone"] ELSE @,
        !.completed_at = IF Has(update_data, "completed_at") THEN update_data["completed_at"]
                         ELSE IF task.status # new_status(task, update_data)
                                 /\ new_status(task, update_data) = COMPLETED
                              THEN now ELSE @,
        !.snoozed_until = IF Has(update_data, "snoozed_until")
                          THEN update_data["snoozed_until"] ELSE @]

\* Lines 144-150: one row per change of status.
StatusChange(task_id, old, new) ==
    [task_id |-> task_id, status |-> "status changed", old |-> old, new |-> new, run_count |-> 0]

\* The row added for every status given, changed or not.
updated_history_every_status(task_id, task, update_data) ==
    IF Has(update_data, "status")
    THEN Append(history, StatusChange(task_id, task.status, new_status(task, update_data)))
    ELSE history

updated_history(task_id, task, update_data) ==
    IF task.status # new_status(task, update_data)
    THEN Append(history, StatusChange(task_id, task.status, new_status(task, update_data)))
    ELSE history

\* The rescheduling block without its test of the status (line 169).
rescheduled_jobs_any_status(task_id, task, update_data, notify_function) ==
    IF DOMAIN update_data \cap reschedule_keys # {} /\ notify_function
    THEN IF ~from_crontab_raises(task.cron_expression, task.timezone)
         THEN add_job(remove_job(jobs, task_id), task_id,
                      Job(from_crontab(task.cron_expression, task.timezone),
                          task.title, Args(task, task_id)))
         ELSE remove_job(jobs, task_id)
    ELSE jobs

\* Lines 157-184: the job store after the rescheduling block.
rescheduled_jobs(task_id, task, update_data, notify_function) ==
    IF DOMAIN update_data \cap reschedule_keys # {} /\ notify_function
    THEN IF task.status = PENDING
            /\ ~from_crontab_raises(task.cron_expression, task.timezone)
         THEN add_job(remove_job(jobs, task_id), task_id,
                      Job(from_crontab(task.cron_expression, task.timezone),
                          task.title, Args(task, task_id)))
         ELSE remove_job(jobs, task_id)
    ELSE jobs

\* The call that converts the values it was given before it looks the task up.
Update_converts_first(op, task_id, update_data, notify_function) ==
    /\ pc = "idle"
    /\ \/ /\ update_raises(update_data)
          /\ call' = Call(op, task_id, ValueError, PreStatus(task_id),
                          Given(update_data), notify_function)
          /\ UNCHANGED <<tasks, jobs, history>>
       \/ /\ ~update_raises(update_data)
          /\ task_id \notin DOMAIN tasks
          /\ call' = Call(op, task_id, "None", NoTask, Given(update_data), notify_function)
          /\ UNCHANGED <<tasks, jobs, history>>
       \/ /\ ~update_raises(update_data)
          /\ task_id \in DOMAIN tasks
          /\ tasks' = [tasks EXCEPT ![task_id] = updated_task(tasks[task_id], update_data)]
          /\ history' = updated_history(task_id, tasks[task_id], update_data)
          /\ jobs' = rescheduled_jobs(task_id, updated_task(tasks[task_id], update_data),
                                      update_data, notify_function)
          /\ call' = Call(op, task_id, "Task", tasks[task_id].status,
                          Given(update_data), notify_function)
    /\ UNCHANGED <<now, nextId, pc, instances, scheduler_running, categories>>

\* The whole call, for the caller named op.
Update(op, task_id, update_data, notify_function) ==
    /\ pc = "idle"
    /\ \/ /\ task_id \notin DOMAIN tasks
          /\ call' = Call(op, task_id, "None", NoTask, Given(update_data), notify_function)
          /\ UNCHANGED <<tasks, jobs, history>>
       \/ /\ task_id \in DOMAIN tasks
          /\ update_raises(update_data)
          /\ call' = Call(op, task_id, ValueError, tasks[task_id].status,
                          Given(update_data), notify_function)
          /\ UNCHANGED <<tasks, jobs, history>>
       \/ /\ task_id \in DOMAIN tasks
          /\ ~update_raises(update_data)
          /\ tasks' = [tasks EXCEPT ![task_id] = updated_task(tasks[task_id], update_data)]
          /\ history' = updated_history(task_id, tasks[task_id], update_data)
          /\ jobs' = rescheduled_jobs(task_id, updated_task(tasks[task_id], update_data),
                                      update_data, notify_function)
          /\ call' = Call(op, task_id, "Task", tasks[task_id].status,
                          Given(update_data), notify_function)
    /\ UNCHANGED <<now, nextId, pc, instances, scheduler_running, categories>>

StatusInputs == {"pending", "completed", "snoozed", "PENDING"}
UpdateKeys == {"status", "cron_expression", "timezone", "snoozed_until", "priority"}

\* The dict with the given keys, each value taken from its argument.
Dict(keys, status, cron_expression, timezone, snoozed_until, priority) ==
    [k \in keys |->
        CASE k = "status" -> status
          [] k = "cron_expression" -> cron_expression
          [] k = "timezone" -> timezone
          [] k = "snoozed_until" -> snoozed_until
          [] k = "priority" -> priority]

Pick(keys, key, values) == IF key \in keys THEN values ELSE {CHOOSE v \in values : TRUE}

\* Every update_data of at most MaxKeys keys.
AllDicts ==
    UNION { { Dict(keys, st, cr, tz, su, pr) :
                st \in Pick(keys, "status", StatusInputs),
                cr \in Pick(keys, "cron_expression", Crons),
                tz \in Pick(keys, "timezone", Timezones),
                su \in Pick(keys, "snoozed_until", {t + d : t \in 0..MaxTime, d \in Durations}),
                pr \in Pick(keys, "priority", PriorityInputs) } :
            keys \in {ks \in SUBSET UpdateKeys : Cardinality(ks) <= MaxKeys} }

\* Those a caller can write at the time t: a snoozed_until is t plus a duration.
UpdateInputs(t) ==
    {d \in AllDicts : Has(d, "snoozed_until") => d["snoozed_until"] - t \in Durations}

update_task(task_id, update_data, notify_function) ==
    /\ Update("update_task", task_id, update_data, notify_function)
    /\ UNCHANGED suspended

----------------------------------------------------------------------------
\* TaskService.complete_task, snooze_task, reactivate_task: update_task
\* with a literal dict and no notify_function.
complete_task(task_id) ==
    /\ Update("complete_task", task_id,
              ("status" :> "COMPLETED") @@ ("completed_at" :> now), FALSE)
    /\ suspended' = IF task_id \in DOMAIN tasks THEN suspended \cup {task_id} ELSE suspended

snooze_task(task_id, duration_hours) ==
    /\ Update("snooze_task", task_id,
              ("status" :> "SNOOZED") @@ ("snoozed_until" :> now + duration_hours), FALSE)
    /\ suspended' = IF task_id \in DOMAIN tasks THEN suspended \cup {task_id} ELSE suspended

reactivate_task(task_id) ==
    /\ Update("reactivate_task", task_id,
              ("status" :> "PENDING") @@ ("snoozed_until" :> Null), FALSE)
    /\ suspended' = suspended \ {task_id}

----------------------------------------------------------------------------
\* TaskService.delete_task.
\* The delete whose query for the history rows has no filter.
delete_task_clears_history(task_id) ==
    /\ pc = "idle"
    /\ IF task_id \notin DOMAIN tasks
       THEN /\ call' = Call("delete_task", task_id, "False", NoTask, NoSchedule, FALSE)
            /\ UNCHANGED <<tasks, history, pc, suspended>>
       ELSE /\ tasks' = [x \in DOMAIN tasks \ {task_id} |-> tasks[x]]
            /\ history' = << >>
            /\ pc' = "delete_task:208"
            /\ call' = Call("delete_task", task_id, "running", tasks[task_id].status,
                            NoSchedule, FALSE)
            /\ suspended' = suspended \ {task_id}
    /\ UNCHANGED <<jobs, now, nextId, instances, scheduler_running, categories>>

\* Lines 192-206: the row and its history rows are deleted and committed.
delete_task(task_id) ==
    /\ pc = "idle"
    /\ IF task_id \notin DOMAIN tasks
       THEN /\ call' = Call("delete_task", task_id, "False", NoTask, NoSchedule, FALSE)
            /\ UNCHANGED <<tasks, history, pc, suspended>>
       ELSE /\ tasks' = [x \in DOMAIN tasks \ {task_id} |-> tasks[x]]
            /\ history' = SelectSeq(history, LAMBDA h : h.task_id # task_id)
            /\ pc' = "delete_task:208"
            /\ call' = Call("delete_task", task_id, "running", tasks[task_id].status,
                            NoSchedule, FALSE)
            /\ suspended' = suspended \ {task_id}
    /\ UNCHANGED <<jobs, now, nextId, instances, scheduler_running, categories>>

\* Lines 208-213: the job is removed from the scheduler.
delete_task_unschedule ==
    /\ pc = "delete_task:208"
    /\ jobs' = remove_job(jobs, call.id)
    /\ call' = [call EXCEPT !.ret = "True"]
    /\ pc' = "idle"
    /\ UNCHANGED <<tasks, history, now, nextId, suspended, instances,
                   scheduler_running, categories>>

----------------------------------------------------------------------------
\* TaskService.record_execution and the job function notify.
Executed(task_id, run_count) ==
    [task_id |-> task_id, status |-> "executed", old |-> "", new |-> "", run_count |-> run_count]

\* The record written without looking the task up.
record_execution_unchecked(task_id) ==
    /\ tasks' = [x \in DOMAIN tasks |->
                    IF x = task_id
                    THEN [tasks[x] EXCEPT !.run_count = @ + 1, !.last_run = now]
                    ELSE tasks[x]]
    /\ history' = Append(history, Executed(task_id, 1))

\* The record whose history row holds the count before the increment.
record_execution_old_count(task_id) ==
    IF task_id \in DOMAIN tasks
    THEN /\ tasks' = [tasks EXCEPT ![task_id].run_count = @ + 1,
                                   ![task_id].last_run = now]
         /\ history' = Append(history, Executed(task_id, tasks[task_id].run_count))
    ELSE UNCHANGED <<tasks, history>>

\* The record that counts the execution and adds no row for it.
record_execution_no_row(task_id) ==
    IF task_id \in DOMAIN tasks
    THEN /\ tasks' = [tasks EXCEPT ![task_id].run_count = @ + 1,
                                   ![task_id].last_run = now]
         /\ UNCHANGED history
    ELSE UNCHANGED <<tasks, history>>

record_execution(task_id) ==
    IF task_id \in DOMAIN tasks
    THEN /\ tasks' = [tasks EXCEPT ![task_id].run_count = @ + 1,
                                   ![task_id].last_run = now]
         /\ history' = Append(history, Executed(task_id, tasks[task_id].run_count + 1))
    ELSE UNCHANGED <<tasks, history>>

\* The running scheduler finds the job of task_id due, late by `late` seconds.
\* Later than the job's misfire_grace_time, the run is missed; otherwise the
\* job is submitted to the event loop, unless an instance of it is waiting
\* there already (max_instances is 1), when the run is skipped.  In each
\* case the job stays in the store, with its next run time computed from
\* the current time.
dispatch(task_id, late) ==
    /\ pc \in {"idle", "exit"}
    /\ scheduler_running
    /\ task_id \in DOMAIN jobs
    /\ IF late > jobs[task_id].misfire_grace_time
       THEN /\ call' = [Call("dispatch", task_id, "missed", PreStatus(task_id),
                             NoSchedule, FALSE) EXCEPT !.late = late]
            /\ UNCHANGED instances
       ELSE IF task_id \in instances
       THEN /\ call' = [Call("dispatch", task_id, "skipped", PreStatus(task_id),
                             NoSchedule, FALSE) EXCEPT !.late = late]
            /\ UNCHANGED instances
       ELSE /\ instances' = instances \cup {jobs[task_id].args[4]}
            /\ call' = [Call("dispatch", task_id, "submitted", PreStatus(task_id),
                             NoSchedule, FALSE) EXCEPT !.late = late]
    /\ jobs' = [jobs EXCEPT ![task_id].next_run_time = next_fire_after(jobs[task_id].trigger, now)]
    /\ UNCHANGED <<tasks, history, now, nextId, pc, suspended, scheduler_running, categories>>

\* The job function that records the execution before it posts.
notify_records_first(task_id, post_ok) ==
    /\ pc \in {"idle", "exit"}
    /\ task_id \in instances
    /\ instances' = instances \ {task_id}
    /\ record_execution(task_id)
    /\ call' = Call("notify", task_id, IF post_ok THEN "None" ELSE "HTTPStatusError",
                    PreStatus(task_id), NoSchedule, FALSE)
    /\ UNCHANGED <<jobs, now, nextId, pc, suspended, scheduler_running, categories>>

\* The event loop runs a submitted notify(topic, title, body, task_id);
\* post_ok: httpx.post(...).raise_for_status() returns rather than raises.
notify(task_id, post_ok) ==
    /\ pc \in {"idle", "exit"}
    /\ task_id \in instances
    /\ instances' = instances \ {task_id}
    /\ IF post_ok
       THEN /\ record_execution(task_id)
            /\ call' = Call("notify", task_id, "None", PreStatus(task_id), NoSchedule, FALSE)
       ELSE /\ call' = Call("notify", task_id, "HTTPStatusError", PreStatus(task_id),
                            NoSchedule, FALSE)
            /\ UNCHANGED <<tasks, history>>
    /\ UNCHANGED <<jobs, now, nextId, pc, suspended, scheduler_running, categories>>

----------------------------------------------------------------------------
\* The categories table and CategoryService.delete_category.
DefaultCategories == 1..6       \* the rows create_tables adds: Work, ..., Other

\* create_tables: every default category that is missing is added.
create_tables(cs) == cs \cup DefaultCategories

\* Line 338: the category is loaded together with its tasks (Category.tasks
\* is lazy="joined"): the tasks that have its id as their category_id.
category_tasks(ts, category_id) == {t \in DOMAIN ts : ts[t].category_id = category_id}

\* Lines 345-351: the tasks of the category get reassign_to_id if it is
\* truthy (neither None nor 0), and None if it is not.
reassigned(ts, category_id, reassign_to_id) ==
    [t \in DOMAIN ts |->
        IF ts[t].category_id = category_id
        THEN [ts[t] EXCEPT !.category_id = IF reassign_to_id \notin {Null, 0}
                                           THEN reassign_to_id ELSE Null]
        ELSE ts[t]]

\* Lines 354-355: the delete is flushed.  Category.tasks is declared with
\* neither a delete cascade nor passive_deletes, so the ORM sets to NULL
\* the category_id of the tasks loaded with the category.
flushed(ts, children) ==
    [t \in DOMAIN ts |-> IF t \in children THEN [ts[t] EXCEPT !.category_id = Null] ELSE ts[t]]

delete_category(category_id, reassign_to_id) ==
    /\ pc = "idle"
    /\ IF category_id \notin categories
       THEN /\ call' = Call("delete_category", category_id, "False", NoTask, NoSchedule, FALSE)
            /\ UNCHANGED <<tasks, categories>>
       ELSE /\ tasks' = flushed(reassigned(tasks, category_id, reassign_to_id),
                                category_tasks(tasks, category_id))
            /\ categories' = categories \ {category_id}
            /\ call' = Call("delete_category", category_id, "True", NoTask, NoSchedule, FALSE)
    /\ UNCHANGED <<jobs, history, now, nextId, pc, suspended, instances, scheduler_running>>

----------------------------------------------------------------------------
\* lifespan: the scheduler is started before the application serves, and
\* shut down after it has served.  What the scheduler had submitted and has
\* not run yet is cancelled by the shutdown, or is left to run: either.
lifespan_startup ==
    /\ pc = "startup"
    /\ categories' = create_tables(categories)
    /\ scheduler_running' = (IF ~scheduler_running THEN TRUE ELSE scheduler_running)
    /\ pc' = "idle"
    /\ UNCHANGED <<tasks, jobs, history, now, nextId, call, suspended, instances>>

\* The teardown that leaves the scheduler running.
lifespan_teardown_no_shutdown ==
    /\ pc = "idle"
    /\ pc' = "exit"
    /\ UNCHANGED <<tasks, jobs, history, now, nextId, call, suspended, instances,
                   scheduler_running, categories>>

lifespan_teardown ==
    /\ pc = "idle"
    /\ scheduler_running' = FALSE
    /\ instances' \in {instances, {}}
    /\ pc' = "exit"
    /\ UNCHANGED <<tasks, jobs, history, now, nextId, call, suspended, categories>>

\* An hour passes.
Tick ==
    /\ pc = "idle"
    /\ now' = now + 1
    /\ UNCHANGED <<tasks, jobs, history, nextId, pc, call, suspended, instances,
                   scheduler_running, categories>>

----------------------------------------------------------------------------
\* The bounds on what the model explores: whether the call appends a row to
\* task_history, and the next-state relation within the bounds.
Appends(task_id, status) ==
    /\ task_id \in DOMAIN tasks
    /\ TaskStatus(status) \notin {ValueError, tasks[task_id].status}

Room(task_id, status, rows) == Appends(task_id, status) => Len(history) < rows

Next ==
    \/ \E cr \in CreateCrons, pr \in PriorityInputs, tz \in Timezones, nf \in BOOLEAN :
            nextId < MaxTasks /\ create_task("title", "topic", "body", cr, pr, Null, tz, nf)
    \/ create_task_schedule
    \/ \E t \in Ids, d \in UpdateInputs(now), nf \in BOOLEAN :
            /\ Has(d, "status") /\ ~update_raises(d) => Room(t, d["status"], MaxHistory)
            /\ update_task(t, d, nf)
    \/ \E t \in Ids : Room(t, "COMPLETED", MaxHistory) /\ complete_task(t)
    \/ \E t \in Ids, d \in Durations : Room(t, "SNOOZED", MaxHistory) /\ snooze_task(t, d)
    \/ \E t \in Ids : Room(t, "PENDING", MaxHistory) /\ reactivate_task(t)
    \/ \E t \in Ids : delete_task(t)
    \/ delete_task_unschedule
    \/ \E t \in Ids : dispatch(t, 0)
    \/ \E t \in Ids, ok \in BOOLEAN :
            /\ (ok /\ t \in DOMAIN tasks) =>
                    tasks[t].run_count < MaxRuns /\ Len(history) < MaxHistory
            /\ notify(t, ok)
    \/ lifespan_startup
    \/ lifespan_teardown
    \/ now < MaxTime /\ Tick

Spec == Init /\ [][Next]_vars

----------------------------------------------------------------------------
\* Two tasks side by side: fewer inputs, any of two ids, more rows of history.
TwoTasks == 2       \* ids create_task can hand out
TwoHistory == 2     \* rows of task_history
TwoRuns == 1        \* executions recorded per task

TwoTime == 1        \* the clock runs from 0 to TwoTime

TwoIds == 1..TwoTasks
TwoStatus == {"pending", "completed"}
Lateness == {60, 120}           \* seconds

NextTwo ==
    \/ nextId < TwoTasks /\ create_task("title", "topic", "body", EveryMinute, "medium", Null, Berlin, TRUE)
    \/ create_task_schedule
    \/ \E t \in TwoIds, st \in TwoStatus, nf \in BOOLEAN :
            Room(t, st, TwoHistory) /\ update_task(t, "status" :> st, nf)
    \/ \E t \in TwoIds : Room(t, "COMPLETED", TwoHistory) /\ complete_task(t)
    \/ \E t \in TwoIds, d \in Durations : Room(t, "SNOOZED", TwoHistory) /\ snooze_task(t, d)
    \/ \E t \in TwoIds : Room(t, "PENDING", TwoHistory) /\ reactivate_task(t)
    \/ \E t \in TwoIds : delete_task(t)
    \/ delete_task_unschedule
    \/ \E t \in TwoIds, late \in Lateness : dispatch(t, late)
    \/ \E t \in TwoIds, ok \in BOOLEAN :
            /\ (ok /\ t \in DOMAIN tasks) =>
                    tasks[t].run_count < TwoRuns /\ Len(history) < TwoHistory
            /\ notify(t, ok)
    \/ lifespan_startup
    \/ lifespan_teardown
    \/ now < TwoTime /\ Tick

SpecTwo == Init /\ [][NextTwo]_vars

----------------------------------------------------------------------------
\* Repeated executions: two tasks whose jobs run up to RunsMax times each,
\* between the calls that create, complete, reopen and delete them.
RunsTasks == 2      \* ids create_task can hand out
RunsMax == 2        \* executions recorded per task
RunsHistory == 4    \* rows of task_history

RunsIds == 1..RunsTasks

NextRuns ==
    \/ nextId < RunsTasks /\ create_task("title", "topic", "body", EveryMinute, "medium", Null, Berlin, TRUE)
    \/ create_task_schedule
    \/ \E t \in RunsIds, st \in TwoStatus :
            Room(t, st, RunsHistory) /\ update_task(t, "status" :> st, TRUE)
    \/ \E t \in RunsIds : delete_task(t)
    \/ delete_task_unschedule
    \/ \E t \in RunsIds : dispatch(t, 0)
    \/ \E t \in RunsIds, ok \in BOOLEAN :
            /\ (ok /\ t \in DOMAIN tasks) =>
                    tasks[t].run_count < RunsMax /\ Len(history) < RunsHistory
            /\ notify(t, ok)
    \/ lifespan_startup
    \/ lifespan_teardown

SpecRuns == Init /\ [][NextRuns]_vars

----------------------------------------------------------------------------
\* What a notification says: one task whose title, topic and body are given
\* at its creation and changed by update_task, always with a notify function.
PayloadTasks == 1       \* ids create_task can hand out
PayloadHistory == 2     \* rows of task_history
PayloadRuns == 1        \* executions recorded per task

PayloadIds == 1..PayloadTasks
Titles == {"title", "new title"}
Topics == {"topic", "new topic"}
Bodies == {"body", "new body"}
PayloadCrons == {EveryMinute, NineOClock}

\* PUT /tasks/{task_id}: the update_data the route writes, with those of its
\* keys that the model has.
PutData(title, topic, body, cron, priority, status) ==
    ("title" :> title) @@ ("topic" :> topic) @@ ("body" :> body)
        @@ ("cron_expression" :> cron) @@ ("priority" :> priority) @@ ("status" :> status)

\* The update_data of one key, and the route's.
PayloadInputs ==
    {"title" :> x : x \in Titles} \cup {"topic" :> x : x \in Topics}
        \cup {"body" :> x : x \in Bodies}
        \cup {"cron_expression" :> x : x \in PayloadCrons}
        \cup {"status" :> x : x \in TwoStatus}
        \cup {PutData(ti, "topic", "body", cr, "medium", st) :
                    ti \in Titles, cr \in PayloadCrons, st \in TwoStatus}

NextPayload ==
    \/ \E ti \in Titles, to \in Topics, bo \in Bodies, cr \in PayloadCrons :
            nextId < PayloadTasks /\ create_task(ti, to, bo, cr, "medium", Null, Berlin, TRUE)
    \/ create_task_schedule
    \/ \E t \in PayloadIds, d \in PayloadInputs :
            /\ Has(d, "status") => Room(t, d["status"], PayloadHistory)
            /\ update_task(t, d, TRUE)
    \/ \E t \in PayloadIds : delete_task(t)
    \/ delete_task_unschedule
    \/ \E t \in PayloadIds : dispatch(t, 0)
    \/ \E t \in PayloadIds, ok \in BOOLEAN :
            /\ (ok /\ t \in DOMAIN tasks) =>
                    tasks[t].run_count < PayloadRuns /\ Len(history) < PayloadHistory
            /\ notify(t, ok)
    \/ lifespan_startup

SpecPayload == Init /\ [][NextPayload]_vars

----------------------------------------------------------------------------
\* Categories: two tasks, each in a category or in none, and the categories
\* deleted under them.
CategoryTasks == 2      \* ids create_task can hand out

CategoryTaskIds == 1..CategoryTasks
NoSuchCategory == 7     \* an id no row of categories has
CategoryInputs == {1, 2, NoSuchCategory}
ReassignInputs == {Null, 0} \cup CategoryInputs

NextCategory ==
    \/ \E c \in {Null} \cup CategoryInputs :
            /\ nextId < CategoryTasks
            /\ create_task("title", "topic", "body", EveryMinute, "medium", c, Berlin, TRUE)
    \/ create_task_schedule
    \/ \E t \in CategoryTaskIds, c \in {Null} \cup CategoryInputs :
            update_task(t, "category_id" :> c, TRUE)
    \/ \E t \in CategoryTaskIds : delete_task(t)
    \/ delete_task_unschedule
    \/ \E c \in CategoryInputs, r \in ReassignInputs : delete_category(c, r)
    \/ lifespan_startup

SpecCategory == Init /\ [][NextCategory]_vars

----------------------------------------------------------------------------
\* What the claims speak of.
Inactive == {SNOOZED, COMPLETED}
CronOK(expr) == ~from_crontab_raises(expr, Berlin)
Errors == {ValueError, "HTTPException"}

\* C1: between calls, a task is Pending if and only if the scheduler holds
\* the job with its id, and every job belongs to a stored task.
C1_JoinInvariant ==
    pc = "idle" =>
        /\ \A t \in DOMAIN tasks : tasks[t].status = PENDING <=> t \in DOMAIN jobs
        /\ DOMAIN jobs \subseteq DOMAIN tasks

\* C2: after complete_task on an existing task, the task is Completed with
\* completed_at set, and the scheduler holds no job with its id.
C2_CompleteCompletes ==
    (call.op = "complete_task" /\ call.pre # NoTask) =>
        /\ call.id \in DOMAIN tasks
        /\ tasks[call.id].status = COMPLETED
        /\ tasks[call.id].completed_at # Null
        /\ call.id \notin DOMAIN jobs

\* C3: notify is never invoked for a task that is Snoozed or Completed, nor
\* for one between a snooze_task or complete_task call and the next
\* reactivate_task call.  (notify changes neither the status nor those calls.)
C3_NoNotifyWhileSuspended ==
    (call.op = "notify" /\ call.id \in DOMAIN tasks) =>
        /\ tasks[call.id].status \notin Inactive
        /\ call.id \notin suspended

\* C4: snooze_task on a Pending or Snoozed task leaves it Snoozed until the
\* call time plus the duration, with no job in the scheduler.
C4_SnoozeSnoozes ==
    [][\A t \in Ids, d \in Durations :
        (/\ call'.op = "snooze_task"
         /\ snooze_task(t, d)
         /\ t \in DOMAIN tasks
         /\ tasks[t].status \in {PENDING, SNOOZED})
        => /\ tasks'[t].status = SNOOZED
           /\ tasks'[t].snoozed_until = now + d
           /\ t \notin DOMAIN jobs']_vars

\* C5: reactivate_task on a Snoozed or Completed task leaves it Pending with
\* snoozed_until null and completed_at as it was, and the scheduler holds its
\* job, built from the task's cron_expression and timezone.
C5_ReactivateReschedules ==
    [][\A t \in Ids :
        (/\ call'.op = "reactivate_task"
         /\ reactivate_task(t)
         /\ t \in DOMAIN tasks
         /\ tasks[t].status \in Inactive)
        => /\ tasks'[t].status = PENDING
           /\ tasks'[t].snoozed_until = Null
           /\ tasks'[t].completed_at = tasks[t].completed_at
           /\ t \in DOMAIN jobs'
           /\ jobs'[t].trigger = from_crontab(tasks'[t].cron_expression, tasks'[t].timezone)]_vars

\* C6: create_task with a valid cron expression, a notify function and the
\* default priority and timezone stores a Pending task and then registers
\* the job with the task's id.
C6_CreateWithDefaults ==
    [][/\ \A cr \in CreateCrons :
            (/\ call'.op = "create_task"
             /\ create_task("title", "topic", "body", cr, "MEDIUM", Null, Berlin, TRUE)
             /\ CronOK(cr)
             /\ nextId < MaxTasks)
            => /\ call'.ret \notin Errors
               /\ call'.id \in DOMAIN tasks'
               /\ tasks'[call'.id].status = PENDING
       /\ (create_task_schedule /\ CronOK(tasks[call.id].cron_expression)
              /\ tasks[call.id].timezone = Berlin)
            => /\ call'.ret = "Task"
               /\ call.id \in DOMAIN jobs']_vars

\* The schedule a call was given is invalid: a malformed cron expression
\* or an unknown timezone.
InvalidSchedule(sched) ==
    \/ "cron_expression" \in DOMAIN sched /\ ~CronOK(sched["cron_expression"])
    \/ "timezone" \in DOMAIN sched /\ sched["timezone"] \notin KnownZones

\* C7: create_task with an invalid cron expression ends in an error with no
\* task and no job, and its task is at no time stored.
C7_InvalidNeverStored ==
    (call.op = "create_task" /\ ~CronOK(call.sched["cron_expression"])) =>
        /\ call.id \notin DOMAIN tasks
        /\ call.id \notin DOMAIN jobs
        /\ pc = "idle" => call.ret \in Errors

\* C8: update_task giving a Pending task an invalid cron_expression or
\* timezone leaves the stored cron_expression and the job as they were.
C8_NoPartialReschedule ==
    [][(/\ call'.op = "update_task"
        /\ call'.id \in DOMAIN tasks
        /\ tasks[call'.id].status = PENDING
        /\ InvalidSchedule(call'.sched))
       => /\ tasks'[call'.id].cron_expression = tasks[call'.id].cron_expression
          /\ call'.id \in DOMAIN jobs =>
                (call'.id \in DOMAIN jobs' /\ jobs'[call'.id] = jobs[call'.id])]_vars

\* C9: update_task given a malformed cron expression for an existing task
\* returns an error to its caller.
C9_MalformedCronReported ==
    (/\ call.op = "update_task"
     /\ call.pre # NoTask
     /\ "cron_expression" \in DOMAIN call.sched
     /\ ~CronOK(call.sched["cron_expression"]))
    => call.ret \in Errors

\* C10, as claimed: update_task with a cron_expression or timezone on a
\* Snoozed or Completed task is rejected and stores neither.
C10_RescheduleRejected ==
    [][(/\ call'.op = "update_task"
        /\ call'.id \in DOMAIN tasks
        /\ tasks[call'.id].status \in Inactive
        /\ DOMAIN call'.sched # {})
       => /\ call'.ret \in Errors
          /\ tasks'[call'.id].cron_expression = tasks[call'.id].cron_expression
          /\ tasks'[call'.id].timezone = tasks[call'.id].timezone]_vars

\* C10, amended: such a call is not rejected for the task's status.  Unless
\* it raises ValueError for an invalid status or priority value, storing
\* nothing, it returns the task with the given cron_expression and timezone
\* stored, and as long as the task stays Snoozed or Completed it registers
\* no job: with a notify function the task has no job afterwards, without
\* one the job store is as it was.
C10_RescheduleAccepted ==
    [][(/\ call'.op = "update_task"
        /\ call'.id \in DOMAIN tasks
        /\ tasks[call'.id].status \in Inactive
        /\ DOMAIN call'.sched # {})
       => IF call'.ret = ValueError
          THEN tasks' = tasks /\ jobs' = jobs /\ history' = history
          ELSE /\ call'.ret = "Task"
               /\ \A k \in DOMAIN call'.sched : tasks'[call'.id][k] = call'.sched[k]
               /\ tasks'[call'.id].status \in Inactive =>
                       IF call'.nf THEN call'.id \notin DOMAIN jobs' ELSE jobs' = jobs]_vars

\* C10: update_task, given a notify function and an invalid cron expression
\* for a Snoozed or Completed task, has returned the task, which has that
\* cron expression and no job.
C10_Witness ==
    /\ call.op = "update_task"
    /\ call.nf
    /\ "cron_expression" \in DOMAIN call.sched
    /\ ~CronOK(call.sched["cron_expression"])
    /\ call.pre \in Inactive
    /\ call.ret = "Task"
    /\ call.id \in DOMAIN tasks
    /\ tasks[call.id].status \in Inactive
    /\ tasks[call.id].cron_expression = call.sched["cron_expression"]
    /\ call.id \notin DOMAIN jobs

----------------------------------------------------------------------------
C12_StatusTimestamps ==
    \A t \in DOMAIN tasks :
        /\ tasks[t].status = SNOOZED => tasks[t].snoozed_until # Null
        /\ tasks[t].status = COMPLETED => tasks[t].completed_at # Null

\* The rows of a task, and those of them that record a change of status.
Rows(h, task_id) == SelectSeq(h, LAMBDA e : e.task_id = task_id)
StatusRows(h, task_id) == SelectSeq(h, LAMBDA e : e.task_id = task_id /\ e.status = "status changed")

\* C13: a step that changes a task's status appends exactly one row, which
\* records the change of that task from the old to the new status; a step
\* that leaves a task's status as it was adds no such row for it.
C13_OneRowPerStatusChange ==
    [][\A t \in DOMAIN tasks \cap DOMAIN tasks' :
        IF tasks'[t].status # tasks[t].status
        THEN history' = Append(history, StatusChange(t, tasks[t].status, tasks'[t].status))
        ELSE StatusRows(history', t) = StatusRows(history, t)]_vars

\* C13: update_task has snoozed a Pending task, and the one row says so.
C13_Witness ==
    /\ call.op = "update_task"
    /\ call.ret = "Task"
    /\ call.pre = PENDING
    /\ call.id \in DOMAIN tasks
    /\ tasks[call.id].status = SNOOZED
    /\ history = <<StatusChange(call.id, PENDING, SNOOZED)>>

\* C14: once delete_task and the dispatch of the task's job have both
\* finished, in whichever order they ran, there is no job with the id of
\* the deleted task and no row of history for it.
C14_NothingLeftAfterDelete ==
    \A t \in 1..nextId :
        (pc \in {"idle", "exit"} /\ t \notin DOMAIN tasks /\ t \notin instances)
        => /\ t \notin DOMAIN jobs
           /\ Rows(history, t) = << >>

\* C14: the job was submitted, the task was deleted, and then notify ran.
C14_Witness ==
    /\ call.op = "notify"
    /\ call.ret = "None"
    /\ call.pre = NoTask
    /\ pc = "idle"
    /\ call.id \notin DOMAIN tasks
    /\ call.id \notin DOMAIN jobs
    /\ call.id \notin instances
    /\ Rows(history, call.id) = << >>

\* C15: a notify whose post fails changes no task (run_count and last_run
\* stay), appends no row, and leaves the jobs as they are.
C15_FailedDispatch ==
    [][(/\ call'.op = "notify"
        /\ call'.ret = "HTTPStatusError"
        /\ call'.id \in instances
        /\ call'.id \notin instances')
       => /\ tasks' = tasks
          /\ history' = history
          /\ jobs' = jobs]_vars

\* C15: the post has failed for a stored task: nothing is recorded, and
\* the job is still there.
C15_Witness ==
    /\ call.op = "notify"
    /\ call.ret = "HTTPStatusError"
    /\ call.id \in DOMAIN tasks
    /\ tasks[call.id].run_count = 0
    /\ tasks[call.id].last_run = Null
    /\ Rows(history, call.id) = << >>
    /\ call.id \in DOMAIN jobs

\* C16: a notify whose post succeeds, for a stored task, adds 1 to its
\* run_count, sets its last_run, changes nothing else in the tasks, and
\* appends one "executed" row holding the new run_count; for a task that is
\* not stored it changes nothing.
C16_SuccessfulDispatch ==
    [][(/\ call'.op = "notify"
        /\ call'.ret = "None"
        /\ call'.id \in instances
        /\ call'.id \notin instances')
       => IF call'.id \in DOMAIN tasks
          THEN /\ DOMAIN tasks' = DOMAIN tasks
               /\ tasks'[call'.id].run_count = tasks[call'.id].run_count + 1
               /\ tasks'[call'.id].last_run = now
               /\ tasks'[call'.id].last_run # Null
               /\ \A t \in DOMAIN tasks :
                    [tasks'[t] EXCEPT !.run_count = 0, !.last_run = Null]
                        = [tasks[t] EXCEPT !.run_count = 0, !.last_run = Null]
               /\ \A t \in DOMAIN tasks \ {call'.id} : tasks'[t] = tasks[t]
               /\ Len(history') = Len(history) + 1
               /\ SubSeq(history', 1, Len(history)) = history
               /\ history'[Len(history')].task_id = call'.id
               /\ history'[Len(history')].status = "executed"
               /\ history'[Len(history')].run_count = tasks'[call'.id].run_count
          ELSE /\ tasks' = tasks
               /\ history' = history
               /\ jobs' = jobs]_vars

\* C16: notify has recorded the first execution of a stored task.
C16_Witness ==
    /\ call.op = "notify"
    /\ call.ret = "None"
    /\ call.id \in DOMAIN tasks
    /\ tasks[call.id].run_count = 1
    /\ tasks[call.id].last_run # Null
    /\ history # << >>
    /\ history[Len(history)] = Executed(call.id, 1)

IsPrefix(s, t) == Len(s) <= Len(t) /\ SubSeq(t, 1, Len(s)) = s

\* C17: the step in which delete_task commits removes every row of the
\* deleted task and no row of another task; every other step keeps the
\* rows there are, as they are and in their order.
C17_HistoryAppendOnly ==
    [][IF pc = "idle" /\ pc' = "delete_task:208"
       THEN /\ Rows(history', call'.id) = << >>
            /\ \A t \in 1..nextId : t # call'.id => Rows(history', t) = Rows(history, t)
            /\ Len(history') = Len(history) - Len(Rows(history, call'.id))
       ELSE IsPrefix(history, history')]_vars

\* C17: a Completed task, which had a row of its own, has been deleted, and
\* the rows of the other task are still there.
C17_Witness ==
    /\ call.op = "delete_task"
    /\ call.ret = "True"
    /\ call.pre = COMPLETED
    /\ history # << >>
    /\ Rows(history, call.id) = << >>

AbsentOps == {"update_task", "complete_task", "snooze_task", "reactivate_task", "delete_task"}

\* C18: update_task, complete_task, snooze_task and reactivate_task on an
\* id that is not stored return None, delete_task returns False, and none
\* of them changes a task, a row of history or a job.
C18_AbsentHandled ==
    [][(/\ pc = "idle"
        /\ call' # call
        /\ call'.op \in AbsentOps
        /\ call'.id \notin DOMAIN tasks)
       => /\ call'.ret = (IF call'.op = "delete_task" THEN "False" ELSE "None")
          /\ tasks' = tasks
          /\ history' = history
          /\ jobs' = jobs]_vars

\* C18: complete_task has returned None for an id that is not stored, while
\* another task and its job are.
C18_Witness ==
    /\ call.op = "complete_task"
    /\ call.ret = "None"
    /\ call.id \notin DOMAIN tasks
    /\ tasks # << >>
    /\ jobs # << >>

\* C19: the scheduler goes from stopped to running at startup only and from
\* running to stopped at teardown only; it is running whenever the
\* application serves, stopped after the teardown, and while it is stopped
\* no job is submitted.
C19_SchedulerLifecycle ==
    [][/\ scheduler_running' # scheduler_running =>
            \/ pc = "startup" /\ pc' = "idle" /\ ~scheduler_running /\ scheduler_running'
            \/ pc = "idle" /\ pc' = "exit" /\ scheduler_running /\ ~scheduler_running'
       /\ pc' \notin {"startup", "exit"} => scheduler_running'
       /\ pc' = "exit" => ~scheduler_running'
       /\ (~scheduler_running \/ pc = "exit") =>
            /\ instances' \subseteq instances
            /\ call'.op = "dispatch" => call' = call]_vars

\* C19: the application has shut down with a job still in the store.
C19_Witness ==
    /\ pc = "exit"
    /\ ~scheduler_running
    /\ jobs # << >>
    /\ instances = {}

\* C20: every job in the store has a misfire grace of 60 seconds; a job
\* found due more than 60 seconds late is not submitted for that run, and
\* it stays in the store with its next run time computed from the current
\* time.
C20_MisfirePolicy ==
    [][/\ \A t \in DOMAIN jobs' : jobs'[t].misfire_grace_time = 60
       /\ (call'.op = "dispatch" /\ call' # call /\ call'.late > 60)
          => /\ call'.ret = "missed"
             /\ instances' = instances
             /\ call'.id \in DOMAIN jobs'
             /\ jobs'[call'.id].trigger = jobs[call'.id].trigger
             /\ jobs'[call'.id].next_run_time
                    = next_fire_after(jobs[call'.id].trigger, now)]_vars

\* C20: an hour after it was registered, a job was found due 120 seconds
\* late: the run was missed, and the next run time is computed from now.
C20_Witness ==
    /\ call.op = "dispatch"
    /\ call.late = 120
    /\ call.ret = "missed"
    /\ call.id \in DOMAIN jobs
    /\ call.id \notin instances
    /\ now > 0
    /\ jobs[call.id].next_run_time.after = now

----------------------------------------------------------------------------
\* The number of "executed" rows stored for a task.
Executions(h, task_id) ==
    Len(SelectSeq(h, LAMBDA e : e.task_id = task_id /\ e.status = "executed"))

\* C21: in every state, whichever way the dispatches and the calls that
\* create, update and delete tasks have interleaved, the run_count of every
\* stored task is the number of "executed" rows stored for it.
C21_RunCountIsExecutions ==
    \A t \in DOMAIN tasks : tasks[t].run_count = Executions(history, t)

\* C21: a task has been executed, completed and reopened, and executed
\* again: it has a run_count of 2, two "executed" rows and two other rows.
C21_Witness ==
    \E t \in DOMAIN tasks :
        /\ tasks[t].run_count = 2
        /\ tasks[t].status = PENDING
        /\ Executions(history, t) = 2
        /\ Len(StatusRows(history, t)) = 2
        /\ history[Len(history)] = Executed(t, 2)

\* C22: the job of every stored task is the one its current record would
\* give: the trigger is built from the task's cron_expression and timezone,
\* and the payload is the task's topic, title, body and id, whatever
\* update_task calls there have been.
C22_JobFromCurrentRecord ==
    \A t \in DOMAIN jobs \cap DOMAIN tasks :
        /\ jobs[t].trigger = from_crontab(tasks[t].cron_expression, tasks[t].timezone)
        /\ jobs[t].args = <<tasks[t].topic, tasks[t].title, tasks[t].body, t>>

\* C23: after a delete_category call, whatever reassign_to_id it was given,
\* every task has no category or one that is in the categories table.
C23_NoDanglingCategory ==
    call.op = "delete_category" =>
        \A t \in DOMAIN tasks :
            tasks[t].category_id = Null \/ tasks[t].category_id \in categories

====
